---- MODULE Spec2Model ----
(***************************************************************************)
(* Models of the design-pattern demonstrations of this repository.         *)
(*                                                                         *)
(*   proxy : NginxServer, a rate-limiting proxy in front of Application    *)
(*           (src/proxy/src/main.rs)           -- specification SpecProxy  *)
(*   state : the music player and its Stopped/Paused/Playing states        *)
(*           (src/state/src/main.rs)           -- specification SpecPlayer *)
(*   command : the text editor with Copy, Cut, Paste and Undo              *)
(*           (src/command/src/main.rs)         -- specification SpecEditor *)
(*   chain_responsibility : a patient passed along a chain of departments  *)
(*           (src/chain_responsibility/src/main.rs)                        *)
(*                                             -- specification SpecChain  *)
(*   facade : WalletFacade over account, code, wallet, notification and    *)
(*           ledger (src/facade/src/main.rs)   -- specification SpecWallet *)
(*   mediator : TrainStation, the mediator of the trains                   *)
(*           (src/mediator/src/main.rs)       -- specification SpecStation *)
(*                                                                         *)
(* Each demonstration is a standalone program; a specification moves the   *)
(* variables of its own program and leaves the others at their initial     *)
(* values.                                                                 *)
(***************************************************************************)
EXTENDS Integers, Sequences, FiniteSets, TLC

VARIABLES
    rate_limiter,   \* proxy: NginxServer.rate_limiter, HashMap<String, u32>
    log,            \* proxy: history of the calls made on the server, with results
    state,          \* state: PlayerApplication.state, the Box<dyn State>
    player,         \* state: PlayerApplication.player
    view,           \* state: content of the "Player Status" TextView
    button,         \* state: the button of the last execute call ("" before any)
    before,         \* state: state and player as they were when that call began
    editor,         \* command: content of the "Editor" EditView
    clipboard,      \* command: AppContext.clipboard
    history,        \* command: AppContext.history, the commands to be undone
    ran,            \* command: for each command of history, the content it ran on
    editor_op,      \* command: the last button or edit, and the editor before it
    undo_base,      \* command: ran as it was when the current run of undos began
    undos,          \* command: number of undos since the last command or edit
    patient,        \* chain: the Patient
    chain_pc,       \* chain: the department whose execute runs next, or "idle"
    handled,        \* chain: the departments whose handle the current call invoked
    printed,        \* chain: the lines they printed, one per handle
    admitted,       \* chain: the patient as the current execute call received it
    executes,       \* chain: number of execute calls that have returned
    balance,        \* facade: WalletFacade.wallet.balance
    wallet_calls,   \* facade: the calls made on the facade, with what they did
    wallet_panicked, \* facade: a call has panicked, the process is gone
    station,        \* mediator: the TrainStation (trains, train_queue, train_on_platform)
    station_op,     \* mediator: the last accept or depart, the station before it
                    \*           and the notifications it sent the mediator
    station_panicked \* mediator: a call has panicked, the process is gone

proxyVars   == <<rate_limiter, log>>
playerVars  == <<state, player, view, button, before>>
commandVars == <<editor, clipboard, history, ran, editor_op, undo_base, undos>>
chainVars   == <<patient, chain_pc, handled, printed, admitted, executes>>
facadeVars  == <<balance, wallet_calls, wallet_panicked>>
stationVars == <<station, station_op, station_panicked>>
vars        == <<proxyVars, playerVars, commandVars, chainVars, facadeVars,
                 stationVars>>

\* What a step of one program leaves alone: the other programs.
notProxy   == <<playerVars, commandVars, chainVars, facadeVars, stationVars>>
notPlayer  == <<proxyVars, commandVars, chainVars, facadeVars, stationVars>>
notCommand == <<proxyVars, playerVars, chainVars, facadeVars, stationVars>>
notChain   == <<proxyVars, playerVars, commandVars, facadeVars, stationVars>>
notFacade  == <<proxyVars, playerVars, commandVars, chainVars, stationVars>>
notStation == <<proxyVars, playerVars, commandVars, chainVars, facadeVars>>

(***************************************************************************)
(* Bounds of the model.                                                    *)
(***************************************************************************)
\* Number of calls made on one NginxServer.
MaxRequests == 5
\* Length of the editor's undo history.
MaxHistory == 3
\* Number of reception.execute calls on one patient.
MaxExecutes == 2
\* Number of calls made on one WalletFacade.
MaxWalletCalls == 3
\* Length of the station's queue of waiting trains.
MaxQueue == 2

(***************************************************************************)
(*                                 proxy                                   *)
(***************************************************************************)

\* The urls and methods the calls are drawn from: the two routes of the
\* application, and one url it does not serve.
Urls    == {"/app/status", "/create/user", "/other"}
Methods == {"GET", "POST"}

max_allowed_requests == 2

Response(status, body) == [status |-> status, body |-> body]

\* Mutants of Application::handle_request: a route matched on the url alone.
Application_handle_request_create_any_method(url, method) ==
    IF url = "/app/status" /\ method = "GET" THEN Response(200, "Ok")
    ELSE IF url = "/create/user" THEN Response(201, "User Created")
    ELSE Response(404, "Not Ok")

Application_handle_request_status_any_method(url, method) ==
    IF url = "/app/status" THEN Response(200, "Ok")
    ELSE IF url = "/create/user" /\ method = "POST" THEN Response(201, "User Created")
    ELSE Response(404, "Not Ok")

\* Application::handle_request: the routing table.
Application_handle_request(url, method) ==
    IF url = "/app/status" /\ method = "GET" THEN Response(200, "Ok")
    ELSE IF url = "/create/user" /\ method = "POST" THEN Response(201, "User Created")
    ELSE Response(404, "Not Ok")

\* HashMap::entry(url).or_insert(v): the map with the entry present.
or_insert(rl, url, v) ==
    IF url \in DOMAIN rl THEN rl
    ELSE [u \in DOMAIN rl \cup {url} |-> IF u = url THEN v ELSE rl[u]]

\* NginxServer::new: the counter map starts empty.
NginxServer_new == [u \in {} |-> 0]

\* Mutants of check_rate_limiting.
\* The comparison is >= instead of >.
check_rate_limiting_ge(rl, url) ==
    LET ins  == or_insert(rl, url, 1)
        rate == ins[url]
    IN  IF rate >= max_allowed_requests
        THEN [ok |-> FALSE, rate_limiter |-> ins]
        ELSE [ok |-> TRUE,
              rate_limiter |-> [ins EXCEPT ![url] = rate + 1]]

\* One counter is shared by all routes (the key is not the url).
check_rate_limiting_shared(rl, url) ==
    LET ins  == or_insert(rl, "", 1)
        rate == ins[""]
    IN  IF rate > max_allowed_requests
        THEN [ok |-> FALSE, rate_limiter |-> ins]
        ELSE [ok |-> TRUE,
              rate_limiter |-> [ins EXCEPT ![""] = rate + 1]]

\* The call that creates the counter does not increment it.
check_rate_limiting_no_first_increment(rl, url) ==
    IF url \notin DOMAIN rl
    THEN [ok |-> TRUE, rate_limiter |-> or_insert(rl, url, 1)]
    ELSE IF rl[url] > max_allowed_requests
         THEN [ok |-> FALSE, rate_limiter |-> rl]
         ELSE [ok |-> TRUE, rate_limiter |-> [rl EXCEPT ![url] = rl[url] + 1]]

\* The increment is made before the comparison, so rejected calls count too.
check_rate_limiting_counts_rejected(rl, url) ==
    LET ins  == or_insert(rl, url, 1)
        rate == ins[url]
    IN  [ok |-> ~(rate > max_allowed_requests),
         rate_limiter |-> [ins EXCEPT ![url] = rate + 1]]

\* A rejected call starts a new window: the counter is reset.
check_rate_limiting_resets(rl, url) ==
    LET ins  == or_insert(rl, url, 1)
        rate == ins[url]
    IN  IF rate > max_allowed_requests
        THEN [ok |-> FALSE, rate_limiter |-> [ins EXCEPT ![url] = 1]]
        ELSE [ok |-> TRUE,
              rate_limiter |-> [ins EXCEPT ![url] = rate + 1]]

\* NginxServer::check_rate_limiting: the verdict and the counter map it leaves.
\* The counter is a u32; it is incremented only when it is at most
\* max_allowed_requests, so the addition stays far from the u32 range's end
\* and is modelled on the integers.
check_rate_limiting(rl, url) ==
    LET ins  == or_insert(rl, url, 1)
        rate == ins[url]
    IN  IF rate > max_allowed_requests
        THEN [ok |-> FALSE, rate_limiter |-> ins]
        ELSE [ok |-> TRUE,
              rate_limiter |-> [ins EXCEPT ![url] = rate + 1]]

\* Mutant of NginxServer::handle_request: the early return is missing, the
\* request is forwarded whatever the limiter says.
Nginx_handle_request_forwards_always(rl, url, method) ==
    LET c == check_rate_limiting(rl, url)
    IN  [ok |-> c.ok, rate_limiter |-> c.rate_limiter,
         resp |-> Application_handle_request(url, method), app |-> TRUE]

\* Mutant of NginxServer::handle_request: a request the application does not
\* route is answered before the limiter is consulted.
Nginx_handle_request_unrouted_free(rl, url, method) ==
    LET c == check_rate_limiting(rl, url)
        r == Application_handle_request(url, method)
    IN  IF r.status = 404
        THEN [ok |-> TRUE, rate_limiter |-> rl, resp |-> r, app |-> TRUE]
        ELSE IF ~c.ok
        THEN [ok |-> c.ok, rate_limiter |-> c.rate_limiter,
              resp |-> Response(403, "Not Allowed"), app |-> FALSE]
        ELSE [ok |-> c.ok, rate_limiter |-> c.rate_limiter, resp |-> r, app |-> TRUE]

\* NginxServer::handle_request: the response, the counter map it leaves and
\* whether the inner Application was invoked.
Nginx_handle_request(rl, url, method) ==
    LET c == check_rate_limiting(rl, url)
    IN  IF ~c.ok
        THEN [ok |-> c.ok, rate_limiter |-> c.rate_limiter,
              resp |-> Response(403, "Not Allowed"), app |-> FALSE]
        ELSE [ok |-> c.ok, rate_limiter |-> c.rate_limiter,
              resp |-> Application_handle_request(url, method), app |-> TRUE]

NoResponse == Response(0, "")

\* log entries: op is "check" or "handle"; ok is the verdict check_rate_limiting
\* returned; resp the response; app whether Application::handle_request ran.
\* A direct call of the public check_rate_limiting.
CheckRateLimiting(url) ==
    /\ Len(log) < MaxRequests
    /\ LET c == check_rate_limiting(rate_limiter, url)
       IN  /\ rate_limiter' = c.rate_limiter
           /\ log' = Append(log, [op |-> "check", url |-> url, method |-> "",
                                  ok |-> c.ok, resp |-> NoResponse, app |-> FALSE])
    /\ UNCHANGED notProxy

\* A call of Server::handle_request on the NginxServer.
HandleRequest(url, method) ==
    /\ Len(log) < MaxRequests
    /\ LET r == Nginx_handle_request(rate_limiter, url, method)
       IN  /\ rate_limiter' = r.rate_limiter
           /\ log' = Append(log, [op |-> "handle", url |-> url, method |-> method,
                                  ok |-> r.ok, resp |-> r.resp, app |-> r.app])
    /\ UNCHANGED notProxy

\* The calls main makes, in order.
MainCalls ==
    << <<"/app/status", "GET">>, <<"/app/status", "GET">>, <<"/app/status", "GET">>,
       <<"/create/user", "POST">>, <<"/create/user", "GET">> >>

(***************************************************************************)
(*                                 state                                   *)
(***************************************************************************)

Track_new(title, duration) == [title |-> title, duration |-> duration, cursor |-> 0]

\* Player::default. The playlist is a Vec: playlist[i + 1] here is element i.
Player_default ==
    [playlist |-> << Track_new("Track 1", 180), Track_new("Track 2", 165),
                     Track_new("Track 3", 197), Track_new("Track 4", 205) >>,
     current_track |-> 0,
     volume |-> 25]

Player_next_track(p) ==
    [p EXCEPT !.current_track = (p.current_track + 1) % Len(p.playlist)]

Player_prev_track(p) ==
    [p EXCEPT !.current_track =
        (Len(p.playlist) + p.current_track - 1) % Len(p.playlist)]

\* Player::track
Player_track(p) == p.playlist[p.current_track + 1]

\* Player::track_mut().cursor = c
set_cursor(p, c) == [p EXCEPT !.playlist[p.current_track + 1].cursor = c]

Player_play(p)   == set_cursor(p, 10)
Player_pause(p)  == set_cursor(p, 43)
Player_rewind(p) == set_cursor(p, 0)

Transition(s, p) == [state |-> s, player |-> p]

\* Mutant of StoppedState::stop: it rewinds, as the other states' stop does.
StoppedState_stop_rewinds(p) == Transition("Stopped", Player_rewind(Player_pause(p)))

StoppedState_play(p) == Transition("Playing", Player_play(p))
StoppedState_stop(p) == Transition("Stopped", p)

PausedState_play(p) == Transition("Playing", Player_pause(p))
PausedState_stop(p) == Transition("Stopped", Player_rewind(Player_pause(p)))

PlayingState_play(p) == Transition("Paused", Player_pause(p))
PlayingState_stop(p) == Transition("Stopped", Player_rewind(Player_pause(p)))

\* Dynamic dispatch of State::play and State::stop on the Box<dyn State>.
State_play(s, p) ==
    CASE s = "Stopped" -> StoppedState_play(p)
      [] s = "Paused"  -> PausedState_play(p)
      [] s = "Playing" -> PlayingState_play(p)

State_stop(s, p) ==
    CASE s = "Stopped" -> StoppedState_stop(p)
      [] s = "Paused"  -> PausedState_stop(p)
      [] s = "Playing" -> PlayingState_stop(p)

\* Mutant of next: moving to the next track starts playing it.
State_next_plays(s, p) == Transition("Playing", Player_play(Player_next_track(p)))

\* impl dyn State: next and prev return self.
State_next(s, p) == Transition(s, Player_next_track(p))
State_prev(s, p) == Transition(s, Player_prev_track(p))

\* format!("{}", u32) for the durations of the playlist.
ToString_u32(n) ==
    CASE n = 180 -> "180" [] n = 165 -> "165" [] n = 197 -> "197" [] n = 205 -> "205"

\* State::render
State_render(s, p) ==
    CASE s = "Stopped" -> <<"[Stopped] Press 'Play'">>
      [] s = "Paused"  -> <<"[Paused] ", Player_track(p).title, " - ",
                            ToString_u32(Player_track(p).duration), " sec">>
      [] s = "Playing" -> <<"[Playing] ", Player_track(p).title, " - ",
                            ToString_u32(Player_track(p).duration), " sec">>

Buttons == {"Play", "Stop", "Prev", "Next"}

\* execute(s, button): the state executes the action and returns the new state,
\* which renders itself.
Execute(b) ==
    /\ LET t == CASE b = "Play" -> State_play(state, player)
                  [] b = "Stop" -> State_stop(state, player)
                  [] b = "Prev" -> State_prev(state, player)
                  [] b = "Next" -> State_next(state, player)
       IN  /\ state' = t.state
           /\ player' = t.player
           /\ view' = State_render(t.state, t.player)
    /\ button' = b
    /\ before' = Transition(state, player)
    /\ UNCHANGED notPlayer

(***************************************************************************)
(*                                command                                  *)
(***************************************************************************)

\* The contents the user types into the EditView.
Contents == {"", "a", "b"}

\* Command::execute of the three commands, on the editor content ed and the
\* clipboard clip: the bool it returns, the content and clipboard it leaves,
\* and the command object as it is after the call.
\* Mutant of CopyCommand::execute: it returns true, as the other commands do.
CopyCommand_execute_returns_true(ed, clip) ==
    [result |-> TRUE, editor |-> ed, clipboard |-> ed,
     command |-> [kind |-> "Copy"]]

CopyCommand_execute(ed, clip) ==
    [result |-> FALSE, editor |-> ed, clipboard |-> ed,
     command |-> [kind |-> "Copy"]]

CutCommand_execute(ed, clip) ==
    [result |-> TRUE, editor |-> "", clipboard |-> ed,
     command |-> [kind |-> "Cut", backup |-> ed]]

\* Mutant of PasteCommand::execute: the backup is taken after set_content.
PasteCommand_execute_late_backup(ed, clip) ==
    [result |-> TRUE, editor |-> clip, clipboard |-> clip,
     command |-> [kind |-> "Paste", backup |-> clip]]

PasteCommand_execute(ed, clip) ==
    [result |-> TRUE, editor |-> clip, clipboard |-> clip,
     command |-> [kind |-> "Paste", backup |-> ed]]

Command_execute(kind, ed, clip) ==
    CASE kind = "Copy"  -> CopyCommand_execute(ed, clip)
      [] kind = "Cut"   -> CutCommand_execute(ed, clip)
      [] kind = "Paste" -> PasteCommand_execute(ed, clip)

\* Command::undo: the editor content it leaves.
CopyCommand_undo(command, ed)  == ed
CutCommand_undo(command, ed)   == command.backup
PasteCommand_undo(command, ed) == command.backup

Command_undo(command, ed) ==
    CASE command.kind = "Copy"  -> CopyCommand_undo(command, ed)
      [] command.kind = "Cut"   -> CutCommand_undo(command, ed)
      [] command.kind = "Paste" -> PasteCommand_undo(command, ed)

Commands == {"Copy", "Cut", "Paste"}

EditorBefore(op) ==
    [op |-> op, editor |-> editor, clipboard |-> clipboard, history |-> history]

\* execute(app, command): the Copy, Cut and Paste buttons.
ExecuteCommand(kind) ==
    LET r == Command_execute(kind, editor, clipboard)
    IN  /\ r.result => Len(history) < MaxHistory
        /\ editor' = r.editor
        /\ clipboard' = r.clipboard
        /\ history' = IF r.result THEN Append(history, r.command) ELSE history
        /\ ran' = IF r.result
                  THEN Append(ran, [content |-> editor, command |-> r.command])
                  ELSE ran
        /\ editor_op' = EditorBefore(kind)
        /\ undo_base' = ran'
        /\ undos' = 0
        /\ UNCHANGED notCommand

\* undo(app): the Undo button.
Undo ==
    /\ IF history # <<>>
       THEN /\ editor' = Command_undo(history[Len(history)], editor)
            /\ history' = SubSeq(history, 1, Len(history) - 1)
            /\ ran' = SubSeq(ran, 1, Len(ran) - 1)
       ELSE UNCHANGED <<editor, history, ran>>
    /\ editor_op' = EditorBefore("Undo")
    /\ undos' = IF undos <= Len(undo_base) THEN undos + 1 ELSE undos
    /\ UNCHANGED <<clipboard, undo_base>>
    /\ UNCHANGED notCommand

\* The user types in the EditView.
Edit(content) ==
    /\ content # editor
    /\ editor' = content
    /\ editor_op' = EditorBefore("Edit")
    /\ undo_base' = ran
    /\ undos' = 0
    /\ UNCHANGED <<clipboard, history, ran>>
    /\ UNCHANGED notCommand

(***************************************************************************)
(*                         chain_responsibility                            *)
(***************************************************************************)

Names == {"John", "Jane"}

\* Patient: every value of the struct.
Patients ==
    [name : Names, registration_done : BOOLEAN, doctor_check_up_done : BOOLEAN,
     medicine_done : BOOLEAN, payment_done : BOOLEAN]

\* Patient { name: "John".into(), ..Patient::default() }
MainPatient ==
    [name |-> "John", registration_done |-> FALSE, doctor_check_up_done |-> FALSE,
     medicine_done |-> FALSE, payment_done |-> FALSE]

\* Department::handle of the four departments: the patient it leaves and the
\* line it prints.
Reception_handle(p) ==
    IF p.registration_done
    THEN [patient |-> p, line |-> <<"Patient registration is already done">>]
    ELSE [patient |-> [p EXCEPT !.registration_done = TRUE],
          line |-> <<"Reception registering a patient ", p.name>>]

Doctor_handle(p) ==
    IF p.doctor_check_up_done
    THEN [patient |-> p, line |-> <<"A doctor checkup is already done">>]
    ELSE [patient |-> [p EXCEPT !.doctor_check_up_done = TRUE],
          line |-> <<"Doctor checking a patient ", p.name>>]

Medical_handle(p) ==
    IF p.medicine_done
    THEN [patient |-> p, line |-> <<"Medicine is already given to a patient">>]
    ELSE [patient |-> [p EXCEPT !.medicine_done = TRUE],
          line |-> <<"Medical giving medicine to a patient ", p.name>>]

\* Mutant of Cashier::handle: the flag is written on both branches.
Cashier_handle_toggles(p) ==
    IF p.payment_done
    THEN [patient |-> [p EXCEPT !.payment_done = FALSE], line |-> <<"Payment done">>]
    ELSE [patient |-> [p EXCEPT !.payment_done = TRUE],
          line |-> <<"Cashier getting money from a patient ", p.name>>]

Cashier_handle(p) ==
    IF p.payment_done
    THEN [patient |-> p, line |-> <<"Payment done">>]
    ELSE [patient |-> [p EXCEPT !.payment_done = TRUE],
          line |-> <<"Cashier getting money from a patient ", p.name>>]

Department_handle(d, p) ==
    CASE d = "Reception" -> Reception_handle(p)
      [] d = "Doctor"    -> Doctor_handle(p)
      [] d = "Medical"   -> Medical_handle(p)
      [] d = "Cashier"   -> Cashier_handle(p)

\* Mutant of the chain main builds: the doctor is linked to the cashier.
Department_next_skips_medical(d) ==
    CASE d = "Reception" -> "Doctor"
      [] d = "Doctor"    -> "Cashier"
      [] d = "Medical"   -> "Cashier"
      [] d = "Cashier"   -> "None"

\* Department::next in the chain main builds: Cashier::default() has no next,
\* Medical::new(cashier), Doctor::new(medical), Reception::new(doctor).
Department_next(d) ==
    CASE d = "Reception" -> "Doctor"
      [] d = "Doctor"    -> "Medical"
      [] d = "Medical"   -> "Cashier"
      [] d = "Cashier"   -> "None"

\* Mutant of Department::execute: the request stops at the department that
\* performed its step.
Department_execute_stops_when_handled(d, p) ==
    LET h == Department_handle(d, p)
    IN  [patient |-> h.patient, line |-> h.line,
         next |-> IF h.patient # p THEN "None" ELSE Department_next(d)]

\* Department::execute of department d, up to its call of next.execute: the
\* patient and the line handle leaves, and the department executed next.
Department_execute(d, p) ==
    LET h == Department_handle(d, p)
    IN  [patient |-> h.patient, line |-> h.line, next |-> Department_next(d)]

\* main calls reception.execute(&mut patient).
CallExecute ==
    /\ chain_pc = "idle"
    /\ executes < MaxExecutes
    /\ chain_pc' = "Reception"
    /\ handled' = <<>>
    /\ printed' = <<>>
    /\ admitted' = patient
    /\ UNCHANGED <<patient, executes>>
    /\ UNCHANGED notChain

\* The execute of department d runs: handle, then the next department's
\* execute if there is one; after the last one the calls return to main.
DepartmentExecute(d) ==
    /\ chain_pc = d
    /\ LET x == Department_execute(d, patient)
       IN  /\ patient' = x.patient
           /\ handled' = Append(handled, d)
           /\ printed' = Append(printed, x.line)
           /\ chain_pc' = IF x.next = "None" THEN "idle" ELSE x.next
           /\ executes' = IF x.next = "None" THEN executes + 1 ELSE executes
    /\ UNCHANGED admitted
    /\ UNCHANGED notChain

Departments == {"Reception", "Doctor", "Medical", "Cashier"}

(***************************************************************************)
(*                                 facade                                  *)
(***************************************************************************)

\* WalletFacade::new("abc".into(), 1234)
MainAccountId    == "abc"
MainSecurityCode == 1234

\* The arguments the calls are drawn from: those of main, and wrong ones.
AccountIds    == {"abc", "xyz"}
SecurityCodes == {1234, 4321}
Amounts       == {5, 10}

\* Result<(), String>, and a panic with its message.
Ok         == <<"Ok">>
Err(msg)   == <<"Err", msg>>
Panic(msg) == <<"Panic", msg>>

\* Account::check on the account named stored
Account_check(stored, name) ==
    IF stored # name THEN Err("Account name is incorrect") ELSE Ok

\* SecurityCode::check on the code stored
SecurityCode_check(stored, code) ==
    IF stored # code THEN Err("Security code is incorrect") ELSE Ok

\* Wallet::credit_balance. The balance is a u32; the calls of the model keep it
\* far from the end of the u32 range, and the sum is made on the integers.
Wallet_credit_balance(b, amount) == b + amount

\* Wallet::debit_balance: checked_sub(amount).expect(..) panics when the
\* balance is short; its result is dropped, the balance stays as it is.
Wallet_debit_balance(b, amount) ==
    IF amount > b THEN [panic |-> TRUE, balance |-> b]
    ELSE [panic |-> FALSE, balance |-> b]

\* What a facade call did: its result, the balance it leaves, the calls it made
\* on the parts in their order, the ledger entry made if any, and whether it
\* panicked.
Outcome(result, b, steps, entry, panic) ==
    [result |-> result, balance |-> b, steps |-> steps, entry |-> entry,
     panic |-> panic]

\* Mutant of add_money_to_wallet: the security code is checked before the
\* account.
add_money_to_wallet_code_first(b, account_id, security_code, amount) ==
    LET c == SecurityCode_check(MainSecurityCode, security_code)
        a == Account_check(MainAccountId, account_id)
    IN  IF c # Ok THEN Outcome(c, b, <<"code.check">>, <<>>, FALSE)
        ELSE IF a # Ok
        THEN Outcome(a, b, <<"code.check", "account.check">>, <<>>, FALSE)
        ELSE Outcome(Ok, Wallet_credit_balance(b, amount),
                     <<"code.check", "account.check", "wallet.credit_balance",
                       "notification.send_wallet_credit_notification",
                       "ledger.make_entry">>,
                     <<account_id, "credit", amount>>, FALSE)

\* WalletFacade::add_money_to_wallet on a wallet of balance b
add_money_to_wallet(b, account_id, security_code, amount) ==
    LET a == Account_check(MainAccountId, account_id)
        c == SecurityCode_check(MainSecurityCode, security_code)
    IN  IF a # Ok THEN Outcome(a, b, <<"account.check">>, <<>>, FALSE)
        ELSE IF c # Ok
        THEN Outcome(c, b, <<"account.check", "code.check">>, <<>>, FALSE)
        ELSE Outcome(Ok, Wallet_credit_balance(b, amount),
                     <<"account.check", "code.check", "wallet.credit_balance",
                       "notification.send_wallet_credit_notification",
                       "ledger.make_entry">>,
                     <<account_id, "credit", amount>>, FALSE)

\* WalletFacade::deduct_money_from_wallet on a wallet of balance b
deduct_money_from_wallet(b, account_id, security_code, amount) ==
    LET a == Account_check(MainAccountId, account_id)
        c == SecurityCode_check(MainSecurityCode, security_code)
        d == Wallet_debit_balance(b, amount)
    IN  IF a # Ok THEN Outcome(a, b, <<"account.check">>, <<>>, FALSE)
        ELSE IF c # Ok
        THEN Outcome(c, b, <<"account.check", "code.check">>, <<>>, FALSE)
        ELSE IF d.panic
        THEN Outcome(Panic("Balance is not sufficient"), d.balance,
                     <<"account.check", "code.check", "wallet.debit_balance">>,
                     <<>>, TRUE)
        ELSE Outcome(Ok, d.balance,
                     <<"account.check", "code.check", "wallet.debit_balance",
                       "notification.send_wallet_debit_notification",
                       "ledger.make_entry">>,
                     <<account_id, "debit", amount>>, FALSE)

WalletCall(op, account_id, security_code, amount, o) ==
    [op |-> op, account_id |-> account_id, security_code |-> security_code,
     amount |-> amount, balance_before |-> balance, outcome |-> o]

\* A call of add_money_to_wallet on the facade.
AddMoney(account_id, security_code, amount) ==
    /\ ~wallet_panicked
    /\ Len(wallet_calls) < MaxWalletCalls
    /\ LET o == add_money_to_wallet(balance, account_id, security_code, amount)
       IN  /\ balance' = o.balance
           /\ wallet_panicked' = o.panic
           /\ wallet_calls' = Append(wallet_calls,
                  WalletCall("add", account_id, security_code, amount, o))
    /\ UNCHANGED notFacade

\* A call of deduct_money_from_wallet on the facade.
DeductMoney(account_id, security_code, amount) ==
    /\ ~wallet_panicked
    /\ Len(wallet_calls) < MaxWalletCalls
    /\ LET o == deduct_money_from_wallet(balance, account_id, security_code, amount)
       IN  /\ balance' = o.balance
           /\ wallet_panicked' = o.panic
           /\ wallet_calls' = Append(wallet_calls,
                  WalletCall("deduct", account_id, security_code, amount, o))
    /\ UNCHANGED notFacade

(***************************************************************************)
(*                                mediator                                 *)
(***************************************************************************)

TrainNames == {"Train 1", "Train 2", "Train 3"}
TrainKinds == {"Passenger", "Freight"}

\* Option<String>
None    == <<>>
Some(x) == <<x>>

\* TrainStation::default(). trains maps the names of the trains the station
\* owns to the trains (their kind: the name is the key).
TrainStation_default ==
    [trains |-> [n \in {} |-> "Passenger"], train_queue |-> <<>>,
     train_on_platform |-> None]

\* A run of station code: the station it leaves, the notifications the trains
\* sent the mediator on the way, and whether it panicked.
Ran(st, notes, panic) == [station |-> st, notified |-> notes, panic |-> panic]

\* HashMap::insert and HashMap::remove
insert(m, k, v) == [x \in DOMAIN m \cup {k} |-> IF x = k THEN v ELSE m[x]]
remove(m, k)    == [x \in DOMAIN m \ {k} |-> m[x]]

\* Mediator::notify_about_arrival: the station it leaves and the bool returned.
notify_about_arrival(st, train_name) ==
    IF st.train_on_platform # None
    THEN [station |-> [st EXCEPT !.train_queue = Append(@, train_name)],
          result |-> FALSE]
    ELSE [station |-> [st EXCEPT !.train_on_platform = Some(train_name)],
          result |-> TRUE]

\* Train::arrive of both kinds of train: it notifies the mediator (and prints
\* whether it arrived or waits).
Train_arrive(st, train_name) ==
    Ran(notify_about_arrival(st, train_name).station,
        << <<"arrival", train_name>> >>, FALSE)

\* Mediator::notify_about_departure
notify_about_departure(st, train_name) ==
    IF Some(train_name) = st.train_on_platform
    THEN LET freed == [st EXCEPT !.train_on_platform = None]
         IN  IF freed.train_queue # <<>>
             THEN LET next_train_name == Head(freed.train_queue)
                      popped == [freed EXCEPT !.train_queue = Tail(@)]
                  IN  IF next_train_name \notin DOMAIN popped.trains
                      THEN Ran(popped, <<>>, TRUE)    \* remove(..).unwrap()
                      ELSE LET next_train == popped.trains[next_train_name]
                               taken == [popped EXCEPT
                                           !.trains = remove(@, next_train_name)]
                               a == Train_arrive(taken, next_train_name)
                           IN  Ran([a.station EXCEPT
                                      !.trains = insert(@, next_train_name, next_train),
                                      !.train_on_platform = Some(next_train_name)],
                                   a.notified, FALSE)
             ELSE Ran(freed, <<>>, FALSE)
    ELSE Ran(st, <<>>, FALSE)

\* Train::depart of both kinds of train: it notifies the mediator.
Train_depart(st, train_name) ==
    LET d == notify_about_departure(st, train_name)
    IN  Ran(d.station, << <<"departure", train_name>> >> \o d.notified, d.panic)

\* Mutant of TrainStation::accept: the contains_key check is missing.
TrainStation_accept_unchecked(st, kind, train_name) ==
    LET a == Train_arrive(st, train_name)
    IN  Ran([a.station EXCEPT !.trains = insert(@, train_name, kind)],
            a.notified, a.panic)

\* TrainStation::accept of a train of the given kind and name
TrainStation_accept(st, kind, train_name) ==
    IF train_name \in DOMAIN st.trains
    THEN Ran(st, <<>>, FALSE)
    ELSE LET a == Train_arrive(st, train_name)
         IN  Ran([a.station EXCEPT !.trains = insert(@, train_name, kind)],
                 a.notified, a.panic)

\* TrainStation::depart
TrainStation_depart(st, name) ==
    IF name \in DOMAIN st.trains
    THEN Train_depart([st EXCEPT !.trains = remove(@, name)], name)
    ELSE Ran(st, <<>>, FALSE)

StationOp(op, name, r) ==
    [op |-> op, name |-> name, before |-> station, notified |-> r.notified]

\* station.accept(train)
Accept(kind, train_name) ==
    /\ ~station_panicked
    /\ LET r == TrainStation_accept(station, kind, train_name)
       IN  /\ Len(r.station.train_queue) <= MaxQueue
           /\ station' = r.station
           /\ station_panicked' = r.panic
           /\ station_op' = StationOp("accept", train_name, r)
    /\ UNCHANGED notStation

\* station.depart(name)
Depart(name) ==
    /\ ~station_panicked
    /\ LET r == TrainStation_depart(station, name)
       IN  /\ station' = r.station
           /\ station_panicked' = r.panic
           /\ station_op' = StationOp("depart", name, r)
    /\ UNCHANGED notStation

(***************************************************************************)
(*                             specifications                              *)
(***************************************************************************)

InitProxy ==
    /\ rate_limiter = NginxServer_new
    /\ log = <<>>

InitPlayer ==
    /\ state = "Stopped"
    /\ player = Player_default
    /\ view = <<"Press Play">>
    /\ button = ""
    /\ before = Transition("Stopped", Player_default)

\* AppContext::default() and EditView::default()
InitCommand ==
    /\ editor = ""
    /\ clipboard = ""
    /\ history = <<>>
    /\ ran = <<>>
    /\ editor_op = [op |-> "", editor |-> "", clipboard |-> "", history |-> <<>>]
    /\ undo_base = <<>>
    /\ undos = 0

\* The chain before main's first execute call, for a given patient.
InitChain(p) ==
    /\ patient = p
    /\ chain_pc = "idle"
    /\ handled = <<>>
    /\ printed = <<>>
    /\ admitted = p
    /\ executes = 0

\* WalletFacade::new: Wallet::new() has balance 0.
InitFacade ==
    /\ balance = 0
    /\ wallet_calls = <<>>
    /\ wallet_panicked = FALSE

InitStation ==
    /\ station = TrainStation_default
    /\ station_op = [op |-> "", name |-> "", before |-> TrainStation_default,
                     notified |-> <<>>]
    /\ station_panicked = FALSE

Init ==
    /\ InitProxy
    /\ InitPlayer
    /\ InitCommand
    /\ InitChain(MainPatient)
    /\ InitFacade
    /\ InitStation

\* The chain is given any patient.
InitAnyPatient ==
    /\ InitProxy
    /\ InitPlayer
    /\ InitCommand
    /\ \E p \in Patients : InitChain(p)
    /\ InitFacade
    /\ InitStation

NextProxy ==
    \/ \E url \in Urls : CheckRateLimiting(url)
    \/ \E url \in Urls, method \in Methods : HandleRequest(url, method)

NextPlayer == \E b \in Buttons : Execute(b)

NextEditor ==
    \/ \E kind \in Commands : ExecuteCommand(kind)
    \/ Undo
    \/ \E content \in Contents : Edit(content)

SpecProxy  == Init /\ [][NextProxy]_vars
SpecPlayer == Init /\ [][NextPlayer]_vars
SpecEditor == Init /\ [][NextEditor]_vars

NextChain ==
    \/ CallExecute
    \/ \E d \in Departments : DepartmentExecute(d)

SpecChain == InitAnyPatient /\ [][NextChain]_vars

NextWallet ==
    \/ \E a \in AccountIds, c \in SecurityCodes, m \in Amounts : AddMoney(a, c, m)
    \/ \E a \in AccountIds, c \in SecurityCodes, m \in Amounts : DeductMoney(a, c, m)

SpecWallet == Init /\ [][NextWallet]_vars

NextStation ==
    \/ \E kind \in TrainKinds, name \in TrainNames : Accept(kind, name)
    \/ \E name \in TrainNames : Depart(name)

SpecStation == Init /\ [][NextStation]_vars

(***************************************************************************)
(*                         properties of the proxy                         *)
(***************************************************************************)

Last(s) == s[Len(s)]

\* The calls for route u, oldest first, and how many of them were allowed.
CallsFor(u)     == SelectSeq(log, LAMBDA e : e.url = u)
AllowedCount(u) == Len(SelectSeq(log, LAMBDA e : e.url = u /\ e.ok))

\* A step that made a call: the log grew by the call's entry.
Called == Len(log') = Len(log) + 1

NotAllowed == Response(403, "Not Allowed")

\* C1: on a fresh NginxServer (max_allowed_requests = 2) the first 2 calls of
\* check_rate_limiting for a route return true and the 3rd returns false.
C1_FirstTwoAllowedThirdRejected ==
    \A u \in Urls :
        LET s == CallsFor(u)
        IN  \A k \in 1..Len(s) : /\ (k <= 2 => s[k].ok)
                                 /\ (k = 3 => ~s[k].ok)

C1_Witness == \E u \in Urls : Len(CallsFor(u)) >= 3

\* C2: when check_rate_limiting returns false, handle_request returns
\* (403, "Not Allowed") and Application is not invoked; when it returns true,
\* handle_request returns what Application returns for (url, method).
C2_RejectOrForward ==
    \A i \in 1..Len(log) :
        log[i].op = "handle" =>
            IF log[i].ok
            THEN /\ log[i].app
                 /\ log[i].resp = Application_handle_request(log[i].url, log[i].method)
            ELSE /\ ~log[i].app
                 /\ log[i].resp = NotAllowed

C2_Witness ==
    \E i, j \in 1..Len(log) :
        /\ log[i].op = "handle" /\ ~log[i].ok
        /\ log[j].op = "handle" /\ log[j].ok /\ log[j].resp.status = 201

\* C3: a call for route a changes no counter but a's, and so never changes
\* whether a call for another route b is allowed.
C3_RoutesIndependent ==
    [][ Called =>
          \A b \in Urls \ {Last(log').url} :
              /\ (b \in DOMAIN rate_limiter') = (b \in DOMAIN rate_limiter)
              /\ b \in DOMAIN rate_limiter => rate_limiter'[b] = rate_limiter[b]
              /\ check_rate_limiting(rate_limiter', b).ok
                     = check_rate_limiting(rate_limiter, b).ok ]_vars

\* Route a is exhausted (a call for it was rejected) and a later call for
\* another route b is allowed.
C3_Witness ==
    \E i, j \in 1..Len(log) :
        /\ i < j
        /\ ~log[i].ok
        /\ log[j].url # log[i].url
        /\ log[j].ok

\* C4: the calls of main, made in main's order on a fresh NginxServer, are
\* answered (200,"Ok"), (200,"Ok"), (403,"Not Allowed"), (201,"User Created"),
\* (404,"Not Ok").
MainExpected ==
    << Response(200, "Ok"), Response(200, "Ok"), Response(403, "Not Allowed"),
       Response(201, "User Created"), Response(404, "Not Ok") >>

\* The first n calls made on the server are the first n calls of main.
RunsMain(n) ==
    /\ n <= Len(log)
    /\ \A k \in 1..n : /\ log[k].op = "handle"
                       /\ <<log[k].url, log[k].method>> = MainCalls[k]

C4_MainSequence ==
    \A n \in 1..Len(MainCalls) :
        RunsMain(n) => \A k \in 1..n : log[k].resp = MainExpected[k]

C4_Witness == RunsMain(Len(MainCalls))

\* C5 as stated: the counter of a route equals the number of allowed calls for
\* it (the first call creating it with value 1).
C5_CounterIsAllowedCount ==
    \A u \in Urls :
        CallsFor(u) # <<>> =>
            /\ CallsFor(u)[1].ok
            /\ u \in DOMAIN rate_limiter
            /\ rate_limiter[u] = AllowedCount(u)

\* C5 amended: a route has a counter exactly when it has been called; its first
\* call is allowed; and the counter is one more than the number of allowed
\* calls for the route.
C5_CounterIsAllowedCountPlusOne ==
    \A u \in Urls :
        IF CallsFor(u) = <<>>
        THEN u \notin DOMAIN rate_limiter
        ELSE /\ CallsFor(u)[1].ok
             /\ u \in DOMAIN rate_limiter
             /\ rate_limiter[u] = AllowedCount(u) + 1

\* A route with allowed and rejected calls, beside a route never called.
C5_Witness ==
    \E u, w \in Urls :
        /\ AllowedCount(u) = 2
        /\ Len(CallsFor(u)) > 2
        /\ CallsFor(w) = <<>>

\* C6: no step decreases a counter or removes an entry; a rejected call leaves
\* the whole map unchanged; a counter above max_allowed_requests keeps its
\* value.
C6_CountersMonotone ==
    [][ /\ \A u \in DOMAIN rate_limiter :
              /\ u \in DOMAIN rate_limiter'
              /\ rate_limiter'[u] >= rate_limiter[u]
              /\ rate_limiter[u] > max_allowed_requests
                     => rate_limiter'[u] = rate_limiter[u]
        /\ (Called /\ ~Last(log').ok) => rate_limiter' = rate_limiter ]_vars

\* A rejected call was followed by another call for the same route.
C6_Witness ==
    \E i, j \in 1..Len(log) :
        /\ i < j
        /\ ~log[i].ok
        /\ log[j].url = log[i].url
        /\ rate_limiter[log[i].url] > max_allowed_requests

\* not-seen, under-quota, over-quota
RouteState(rl, u) ==
    IF u \notin DOMAIN rl THEN 0
    ELSE IF rl[u] > max_allowed_requests THEN 2 ELSE 1

Rejected(u) == \E i \in 1..Len(log) : log[i].url = u /\ ~log[i].ok

\* C7: the progression not-seen -> under-quota -> over-quota of a route never
\* goes back, and once a call for a route has been rejected every later call
\* for it, with any method, is rejected (403 for handle_request).
C7_OneWay ==
    [][ /\ \A u \in Urls : RouteState(rate_limiter', u) >= RouteState(rate_limiter, u)
        /\ (Called /\ Rejected(Last(log').url)) =>
              /\ ~Last(log').ok
              /\ Last(log').op = "handle" => Last(log').resp = NotAllowed ]_vars

\* Two handle_request calls of different methods for a route, both after a
\* rejected call for that route.
C7_Witness ==
    \E i, j, k \in 1..Len(log) :
        /\ i < j /\ j < k
        /\ ~log[i].ok
        /\ log[j].url = log[i].url /\ log[k].url = log[i].url
        /\ log[j].op = "handle" /\ log[k].op = "handle"
        /\ log[j].method # log[k].method

\* C8: handle_request answers 403 exactly when the limiter rejects the url;
\* otherwise (200,"Ok") exactly for ("/app/status","GET"), (201,"User Created")
\* exactly for ("/create/user","POST") and (404,"Not Ok") for every other
\* pair; it never fails (no counter leaves the range the increment is made in).
C8_FourResponses ==
    /\ \A u \in DOMAIN rate_limiter : rate_limiter[u] \in 1..(max_allowed_requests + 1)
    /\ \A i \in 1..Len(log) :
          log[i].op = "handle" =>
              LET e == log[i]
                  isStatus == e.url = "/app/status" /\ e.method = "GET"
                  isCreate == e.url = "/create/user" /\ e.method = "POST"
              IN  /\ e.resp \in { Response(200, "Ok"), Response(201, "User Created"),
                                  Response(404, "Not Ok"), NotAllowed }
                  /\ (e.resp = NotAllowed) = ~e.ok
                  /\ e.ok => /\ (e.resp = Response(200, "Ok")) = isStatus
                             /\ (e.resp = Response(201, "User Created")) = isCreate
                             /\ (e.resp = Response(404, "Not Ok"))
                                    = (~isStatus /\ ~isCreate)

\* All four responses have been given.
C8_Witness ==
    \A s \in {200, 201, 403, 404} :
        \E i \in 1..Len(log) : log[i].op = "handle" /\ log[i].resp.status = s

(***************************************************************************)
(*                        properties of the player                         *)
(***************************************************************************)

\* C9: play takes Stopped to Playing, Playing to Paused and Paused to Playing;
\* stop takes Playing and Paused to Stopped; stop in Stopped changes neither
\* the state nor the player.
C9_TransitionTable ==
    /\ button = "Play" =>
          state = CASE before.state = "Stopped" -> "Playing"
                    [] before.state = "Playing" -> "Paused"
                    [] before.state = "Paused"  -> "Playing"
    /\ button = "Stop" => state = "Stopped"
    /\ (button = "Stop" /\ before.state = "Stopped") => player = before.player

\* Stop pressed in Stopped, on a track that playback had left a cursor in.
C9_Witness ==
    /\ button = "Stop"
    /\ before.state = "Stopped"
    /\ Player_track(before.player).cursor # 0

\* C10: next and prev return the state they were invoked on and change nothing
\* of the player but current_track.
C10_NextPrevKeepState ==
    button \in {"Next", "Prev"} =>
        /\ state = before.state
        /\ player.playlist = before.player.playlist
        /\ player.volume = before.player.volume

\* Next or prev pressed while Playing or Paused moved to another track.
C10_Witness ==
    /\ button \in {"Next", "Prev"}
    /\ before.state \in {"Playing", "Paused"}
    /\ player.current_track # before.player.current_track
    /\ Player_track(before.player).cursor # 0

(***************************************************************************)
(*                        properties of the editor                         *)
(***************************************************************************)

\* The last step executed command kind and pushed it to the history.
Pushed(kind) ==
    /\ Len(history) = Len(editor_op.history) + 1
    /\ SubSeq(history, 1, Len(history) - 1) = editor_op.history
    /\ history[Len(history)].kind = kind

CommandsOf(r) == [i \in 1..Len(r) |-> r[i].command]

\* C12: k successive undos, k at most the history length, leave the content
\* the k-th most recent history command ran on and the history k entries
\* shorter; undo with an empty history changes neither the editor content, the
\* clipboard nor the history.
C12_UndoRestores ==
    /\ undos \in 1..Len(undo_base) =>
          LET n == Len(undo_base)
          IN  /\ history = CommandsOf(SubSeq(undo_base, 1, n - undos))
              /\ editor = undo_base[n - undos + 1].content
    /\ (editor_op.op = "Undo" /\ editor_op.history = <<>>) =>
          /\ editor = editor_op.editor
          /\ clipboard = editor_op.clipboard
          /\ history = <<>>

\* Two undos in a row, over a Cut and a Paste, that bring back a content other
\* than the one the first undo left.
C12_Witness ==
    /\ undos = 2
    /\ Len(undo_base) >= 2
    /\ {undo_base[i].command.kind : i \in Len(undo_base) - 1..Len(undo_base)}
           = {"Cut", "Paste"}
    /\ editor # editor_op.editor

\* An undo with an empty history, with content in the editor and the clipboard.
C12_WitnessEmpty ==
    /\ editor_op.op = "Undo"
    /\ editor_op.history = <<>>
    /\ editor # ""
    /\ clipboard # ""
    /\ editor # clipboard

(***************************************************************************)
(*                         properties of the chain                         *)
(***************************************************************************)

ChainOrder == <<"Reception", "Doctor", "Medical", "Cashier">>

Flags == {"registration_done", "doctor_check_up_done", "medicine_done", "payment_done"}

\* The flag each department is in charge of.
FlagOf(d) ==
    CASE d = "Reception" -> "registration_done"
      [] d = "Doctor"    -> "doctor_check_up_done"
      [] d = "Medical"   -> "medicine_done"
      [] d = "Cashier"   -> "payment_done"

\* An execute call has returned to main.
Returned == chain_pc = "idle" /\ executes >= 1

\* The i-th handle of the current call performed its step: its line names the
\* patient it worked on; the "already done" lines do not.
Performed(i) == Len(printed[i]) = 2

\* C13: execute on the chain Reception -> Doctor -> Medical -> Cashier invokes
\* handle once per department in that order and then returns, and on return
\* the four flags are true whatever they were.
C13_EveryDepartmentInOrder ==
    /\ chain_pc # "idle" =>
          /\ Len(handled) < Len(ChainOrder)
          /\ handled = SubSeq(ChainOrder, 1, Len(handled))
          /\ chain_pc = ChainOrder[Len(handled) + 1]
    /\ Returned =>
          /\ handled = ChainOrder
          /\ \A f \in Flags : patient[f]

\* The call has returned for a patient that came with some flags set and
\* others not.
C13_Witness ==
    /\ Returned
    /\ admitted.registration_done
    /\ ~admitted.doctor_check_up_done
    /\ admitted.medicine_done
    /\ ~admitted.payment_done

C15_Idempotent ==
    [][ /\ patient'.name = patient.name
        /\ \A f \in Flags : patient[f] => patient'[f]
        /\ chain_pc \in Departments =>
              \A f \in Flags \ {FlagOf(chain_pc)} : patient'[f] = patient[f]
        /\ executes >= 1 => patient' = patient ]_vars

\* The second execute has returned, for a patient the first one had handled.
C15_Witness ==
    /\ executes = 2
    /\ chain_pc = "idle"
    /\ handled = ChainOrder
    /\ \A i \in 1..Len(handled) : ~Performed(i)

(***************************************************************************)
(*                        properties of the facade                         *)
(***************************************************************************)

CreditSteps ==
    <<"account.check", "code.check", "wallet.credit_balance",
      "notification.send_wallet_credit_notification", "ledger.make_entry">>

\* C16: add_money_to_wallet checks the account id first and the security code
\* second; only if both match it credits the wallet, then sends the
\* notification, then makes the ledger entry; otherwise it returns Err, the
\* account's error taking precedence, the balance is unchanged and there is no
\* notification and no ledger entry.
C16_ChecksThenCredit ==
    \A i \in 1..Len(wallet_calls) :
        LET w == wallet_calls[i]
            o == w.outcome
            accountOk == w.account_id = MainAccountId
            codeOk    == w.security_code = MainSecurityCode
        IN  w.op = "add" =>
              IF accountOk /\ codeOk
              THEN /\ o.result = Ok
                   /\ o.steps = CreditSteps
                   /\ o.balance = w.balance_before + w.amount
                   /\ o.entry = <<w.account_id, "credit", w.amount>>
              ELSE /\ o.result = IF ~accountOk
                                 THEN Err("Account name is incorrect")
                                 ELSE Err("Security code is incorrect")
                   /\ o.steps = IF ~accountOk THEN SubSeq(CreditSteps, 1, 1)
                                ELSE SubSeq(CreditSteps, 1, 2)
                   /\ o.balance = w.balance_before
                   /\ o.entry = <<>>

\* A wallet that holds money has been called with both arguments wrong, with
\* the code alone wrong, and with both right.
C16_Witness ==
    \E i, j, k \in 1..Len(wallet_calls) :
        /\ wallet_calls[i].op = "add" /\ wallet_calls[j].op = "add"
        /\ wallet_calls[k].op = "add"
        /\ wallet_calls[i].outcome.result = Ok
        /\ i < j /\ i < k
        /\ wallet_calls[j].account_id # MainAccountId
        /\ wallet_calls[j].security_code # MainSecurityCode
        /\ wallet_calls[k].account_id = MainAccountId
        /\ wallet_calls[k].security_code # MainSecurityCode

(***************************************************************************)
(*                        properties of the station                        *)
(***************************************************************************)

\* C17: accept of a train whose name is already registered leaves the station
\* unchanged (trains, waiting queue, train on platform) and does not notify
\* the mediator of an arrival.
C17_AcceptRegisteredIsNoOp ==
    (station_op.op = "accept" /\ station_op.name \in DOMAIN station_op.before.trains) =>
        /\ station.trains = station_op.before.trains
        /\ station.train_queue = station_op.before.train_queue
        /\ station.train_on_platform = station_op.before.train_on_platform
        /\ station_op.notified = <<>>

\* A train of a registered name was accepted while another train stood on the
\* platform and a third waited.
C17_Witness ==
    /\ station_op.op = "accept"
    /\ station_op.name \in DOMAIN station_op.before.trains
    /\ station.train_on_platform # None
    /\ station.train_on_platform # Some(station_op.name)
    /\ station.train_queue # <<>>
    /\ Head(station.train_queue) # station_op.name

(***************************************************************************)
(*                   properties of the proxy, continued                    *)
(***************************************************************************)

\* The handle_request calls for url u that were answered something else than 403.
Served(u) ==
    {i \in 1..Len(log) :
        log[i].op = "handle" /\ log[i].url = u /\ log[i].resp # NotAllowed}

\* C18: the quota is keyed by the url alone and every request that is not
\* rejected consumes it: at most max_allowed_requests (2) requests for a url
\* get a response other than 403, all methods together, the requests the
\* application answers 404 included.
C18_QuotaPerUrl ==
    \A u \in Urls : Cardinality(Served(u)) <= 2

\* A url was served a 404 and, for another method, a 200 or 201, and then
\* refused.
C18_Witness ==
    \E i, j, k \in 1..Len(log) :
        /\ i < k /\ j < k
        /\ log[i].op = "handle" /\ log[j].op = "handle" /\ log[k].op = "handle"
        /\ log[j].url = log[i].url /\ log[k].url = log[i].url
        /\ log[i].method # log[j].method
        /\ log[i].resp.status = 404
        /\ log[j].resp.status \in {200, 201}
        /\ log[k].resp = NotAllowed

====
